---- MODULE Spec2Model ----
(***************************************************************************)
(* A model of spii's Function (src/source/function.cpp): the variable      *)
(* registry (add_variable_internal), the term graph (add_term), the        *)
(* thread configuration and the evaluate overloads with their parallel     *)
(* term loop.  Doubles are modelled by integers (exact arithmetic).        *)
(* The timing and evaluation counters of Function are statistics that no   *)
(* operation reads back; they are left out.                                *)
(***************************************************************************)
EXTENDS Integers, Sequences, FiniteSets, Bags, TLC

\* ------------------------------------------------------------------ bounds
\* Number of caller-owned parameter blocks (their addresses are 1..NumBlocks).
NumBlocks == 2
\* Largest number of bindings the term graph is grown to.
MaxTerms == 2
\* Largest worker count handed to set_number_of_threads.
MaxThreads == 2
\* Number of add_variable / add_term / configuration calls made before evaluate.
MaxSetupCalls == 4
\* Largest number of evaluations with gradient made on one Function.
MaxEvaluations == 2
\* The deletions of one object are counted up to this number.
MaxDeletions == 2

NULL == 0

\* Addresses of the caller's parameter blocks (the double* keys of the map).
Blocks == 1..NumBlocks
\* Dimensions handed to add_variable.
Dimensions == {1, 2}
\* The ChangeOfVariables classes the caller instantiates; every call that
\* hands one over hands over a new object of the class.
ChangeObjects == {1, 2}
\* The Term objects the caller can hand over.
TermObjects == {"Sq", "Pair", "Prod", "Bad"}
\* What a read outside a buffer can return.
JunkValues == {0, 7}
\* The input vectors of evaluate are prefixes of these.
XPool == { <<3, 1, 2, 1, 2, 3>>, <<1, 2, 1, 3, 1, 2>> }

\* ------------------------------------------------------ sequence helpers
RECURSIVE SumSeq(_)
SumSeq(s) ==
    IF s = <<>> THEN 0 ELSE Head(s) + SumSeq(Tail(s))

Zeros(n) ==
    [i \in 1..n |-> 0]

Junk(n) ==
    [i \in 1..n |-> 7]

Max(a, b) ==
    IF a >= b THEN a ELSE b

RECURSIVE MaxOf(_)
MaxOf(S) ==
    IF S = {} THEN 1
    ELSE LET e == CHOOSE e \in S : TRUE
         IN  Max(e, MaxOf(S \ {e}))

Range(s) ==
    {s[i] : i \in 1..Len(s)}

\* ------------------------------------------------- the external capabilities
\* ChangeOfVariables: object 1 maps t to x = 2t, object 2 maps t to x = (t, t).
x_dimension(c) ==
    IF c = 1 THEN 1 ELSE 2

t_dimension(c) ==
    1

t_to_x(c, t) ==
    IF c = 1 THEN <<2 * t[1]>> ELSE <<t[1], t[1]>>

\* The chain rule: what update_gradient adds to the solver-space gradient,
\* given the user-space gradient g (entries g cannot supply read as 0).
update_gradient(c, g) ==
    LET g1 == IF Len(g) >= 1 THEN g[1] ELSE 0
        g2 == IF Len(g) >= 2 THEN g[2] ELSE 0
    IN  IF c = 1 THEN <<2 * g1>> ELSE <<g1 + g2>>

\* Term: Sq(a) = a^2, Pair(a, b) = (a - b[0])^2 + b[1]^2, Prod(a, b) = a*b,
\* Bad(a) raises a failure whenever it is evaluated.
number_of_variables(term) ==
    IF term \in {"Sq", "Bad"} THEN 1 ELSE 2

variable_dimension(term, var) ==
    IF term = "Pair" /\ var = 2 THEN 2 ELSE 1

TermThrows(term) ==
    term = "Bad"

\* a is the sequence of the argument buffers (temp_variables).
TermValue(term, a) ==
    CASE term = "Sq" -> a[1][1] * a[1][1]
      [] term = "Pair" -> (a[1][1] - a[2][1]) * (a[1][1] - a[2][1]) + a[2][2] * a[2][2]
      [] term = "Prod" -> a[1][1] * a[2][1]
      [] OTHER -> 0

\* The local gradient, one vector per argument.
TermGradient(term, a) ==
    CASE term = "Sq" -> << <<2 * a[1][1]>> >>
      [] term = "Pair" -> << <<2 * (a[1][1] - a[2][1])>>,
                             <<(0 - 2) * (a[1][1] - a[2][1]), 2 * a[2][2]>> >>
      [] term = "Prod" -> << <<a[2][1]>>, <<a[1][1]>> >>
      [] OTHER -> << <<0>> >>

\* The local Hessian: block [var0][var1] holds rows [i] of columns [j].
TermHessian(term, a) ==
    CASE term = "Sq" -> << << <<<<2>>>> >> >>
      [] term = "Pair" -> << << <<<<2>>>>, <<<<0 - 2, 0>>>> >>,
                             << <<<<0 - 2>>, <<0>>>>, <<<<2, 0>>, <<0, 2>>>> >> >>
      [] term = "Prod" -> << << <<<<0>>>>, <<<<1>>>> >>,
                             << <<<<1>>>>, <<<<0>>>> >> >>
      [] OTHER -> << << <<<<0>>>> >> >>

\* ------------------------------------------------------------------ state
VARIABLES
    USE_OPENMP,              \* build configuration: compiled with OpenMP or not
    term_deletion,           \* Function::term_deletion
    deleted,                 \* history: the objects deleted so far, as bags
    handed,                  \* history: the ChangeOfVariables objects handed to add_variable
    evaluations_with_gradient, \* Function::evaluations_with_gradient
    hessian_is_enabled,      \* Function::hessian_is_enabled
    variables,               \* std::map<double*, AddedVariable>
    number_of_scalars,
    terms,                   \* std::vector<AddedTerm>
    added_terms,             \* std::set<const Term*>
    number_of_threads,
    local_storage_allocated,
    thread_gradient_scratch, \* per thread: <<slots, entries per slot>>
    thread_gradient_storage, \* per thread: the thread's global gradient
    order,                   \* history: blocks in the order their first add_variable returned
    result,                  \* history: the last call of the interface and how it ended
                             \* (add_variable: whether it found the block in the map)
    calls,                   \* history: number of set-up calls made so far
    pc,                      \* "setup", "parallel" (inside the term loop) or "returned"
    mode,                    \* which evaluate overload is running
    x,                       \* the argument x of evaluate
    outputs_sized,           \* whether the caller's outputs came in sized (and filled)
    schedule,                \* the loop's assignment of iterations to threads
    processed,               \* the iterations of the term loop that have run
    evaluation_errors,       \* std::vector<std::exception_ptr>, one slot per thread
    first_error,             \* history: the first exception thrown in the term loop
    value,                   \* the reduction variable, then the returned value
    gradient,                \* the caller's Eigen::VectorXd
    hessian,                 \* the caller's Eigen::MatrixXd
    sparse_hessian,          \* the caller's Eigen::SparseMatrix<double>
    undefined                \* the call read or wrote outside a buffer

vars ==
    <<USE_OPENMP, term_deletion, deleted, handed, evaluations_with_gradient,
      hessian_is_enabled, variables, number_of_scalars, terms,
      added_terms, number_of_threads, local_storage_allocated,
      thread_gradient_scratch, thread_gradient_storage, order, result, calls,
      pc, mode, x, outputs_sized, schedule, processed, evaluation_errors,
      first_error, value, gradient, hessian, sparse_hessian, undefined>>

\* What the set-up calls leave alone.
evaluation_vars ==
    <<pc, mode, x, outputs_sized, schedule, processed, evaluation_errors,
      first_error, value, gradient, hessian, sparse_hessian, undefined>>

\* An Eigen::MatrixXd: column-major data of rows x cols entries.
Matrix(rows, cols, data) ==
    [rows |-> rows, cols |-> cols, data |-> data]

\* An Eigen::SparseMatrix: its shape and its stored coordinates (0-based).
SparseMatrix(rows, cols, entries) ==
    [rows |-> rows, cols |-> cols, entries |-> entries]

\* ------------------------------------------------------------ construction
Init ==
    /\ USE_OPENMP \in BOOLEAN
    /\ term_deletion = "DeleteTerms"
    /\ deleted = [terms |-> EmptyBag, change_of_variables |-> EmptyBag]
    /\ handed = {}
    /\ evaluations_with_gradient = 0
    /\ hessian_is_enabled = TRUE
    /\ variables = <<>>
    /\ number_of_scalars = 0
    /\ terms = <<>>
    /\ added_terms = {}
    /\ number_of_threads \in (IF USE_OPENMP THEN 1..MaxThreads ELSE {1})
    /\ local_storage_allocated = FALSE
    /\ thread_gradient_scratch = <<>>
    /\ thread_gradient_storage = <<>>
    /\ order = <<>>
    /\ result = [op |-> "Function", status |-> "ok"]
    /\ calls = 0
    /\ pc = "setup"
    /\ mode = "none"
    /\ x = <<>>
    /\ outputs_sized = FALSE
    /\ schedule = <<>>
    /\ processed = {}
    /\ evaluation_errors = <<>>
    /\ first_error = <<>>
    /\ value = 0
    /\ gradient = <<>>
    /\ hessian = Matrix(0, 0, <<>>)
    /\ sparse_hessian = SparseMatrix(0, 0, <<>>)
    /\ undefined = FALSE

\* ------------------------------------------------------- variable registry
\* An AddedVariable as add_variable_internal leaves it after a first registration.
AddedVariable(user, solver, index, change) ==
    [user_dimension |-> user, solver_dimension |-> solver, global_index |-> index,
     change_of_variables |-> change, temp_space |-> Zeros(user)]

\* variables[variable] of an absent key inserts a value-initialised record.
ValueInitialized ==
    AddedVariable(0, 0, 0, NULL)

\* A registry without the dimension test of the re-registration branch.
NoDimensionTest(var_info, dimension) ==
    FALSE

\* A re-registration that gives the variable the next global index again.
ReindexOnReRegister(variable, dimension, change) ==
    /\ variables' = [variables EXCEPT ![variable].global_index = number_of_scalars]
    /\ result' = [op |-> "add_variable", status |-> "ok", found |-> TRUE]

\* The two tests of the re-registration branch.
DimensionMismatch(var_info, dimension) ==
    var_info.user_dimension # dimension

TransformDimensionMismatch(var_info, change) ==
    /\ change # NULL
    /\ \/ var_info.user_dimension # x_dimension(change)
       \/ var_info.solver_dimension # t_dimension(change)

\* A registry that numbers the variables in the order of their addresses,
\* the order in which the std::map iterates.
AddressOrderIndex(variable) ==
    SumSeq([b \in 1..(variable - 1) |->
               IF b \in DOMAIN variables THEN variables[b].solver_dimension ELSE 0])

\* The global index a newly inserted variable gets.
NextGlobalIndex(variable) ==
    number_of_scalars

Insert(variable, var_info) ==
    [b \in DOMAIN variables \cup {variable} |->
        IF b = variable THEN var_info ELSE variables[b]]

ReRegister(variable, dimension, change) ==
    LET var_info == variables[variable]
    IN  IF DimensionMismatch(var_info, dimension)
        THEN /\ result' = [op |-> "add_variable", status |-> "DimensionMismatch",
                           found |-> TRUE]
             /\ UNCHANGED variables
        ELSE \* the old object is deleted (DeletedOnReRegister) and the new one stored before the
             \* new one's dimensions are tested
             /\ variables' = [variables EXCEPT ![variable].change_of_variables = change]
             /\ result' = [op |-> "add_variable",
                           status |-> IF TransformDimensionMismatch(var_info, change)
                                      THEN "TransformDimensionMismatch" ELSE "ok",
                           found |-> TRUE]

FirstRegister(variable, dimension, change) ==
    IF change # NULL /\ dimension # x_dimension(change)
    THEN \* thrown after variables[variable] was inserted and the pointer stored
         /\ variables' = Insert(variable,
                [ValueInitialized EXCEPT !.change_of_variables = change])
         /\ result' = [op |-> "add_variable", status |-> "TransformDimensionMismatch",
                       found |-> FALSE]
         /\ UNCHANGED <<number_of_scalars, order>>
    ELSE LET user == IF change # NULL THEN x_dimension(change) ELSE dimension
             solver == IF change # NULL THEN t_dimension(change) ELSE dimension
         IN  /\ variables' = Insert(variable,
                    AddedVariable(user, solver, NextGlobalIndex(variable), change))
             /\ number_of_scalars' = number_of_scalars + solver
             /\ order' = Append(order, variable)
             /\ result' = [op |-> "add_variable", status |-> "ok", found |-> FALSE]

\* The bag B after "delete" on every object of the bag D, each object's
\* deletions counted up to MaxDeletions.
Delete(B, D) ==
    [c \in BagToSet(B) \cup BagToSet(D) |->
        LET n == CopiesIn(c, B) + CopiesIn(c, D)
        IN  IF n > MaxDeletions THEN MaxDeletions ELSE n]

\* "delete itr->second.change_of_variables" of the re-registration branch:
\* the object the record holds, once the dimension test has passed.
DeletedOnReRegister(variable, dimension) ==
    IF /\ variable \in DOMAIN variables
       /\ ~DimensionMismatch(variables[variable], dimension)
       /\ variables[variable].change_of_variables # NULL
    THEN SetToBag({variables[variable].change_of_variables})
    ELSE EmptyBag

add_variable_internal(variable, dimension, change) ==
    /\ local_storage_allocated' = FALSE
    /\ handed' = IF change # NULL THEN handed \cup {change} ELSE handed
    /\ deleted' = [deleted EXCEPT !.change_of_variables =
                       Delete(@, DeletedOnReRegister(variable, dimension))]
    /\ IF variable \in DOMAIN variables
       THEN /\ ReRegister(variable, dimension, change)
            /\ UNCHANGED <<number_of_scalars, order>>
       ELSE FirstRegister(variable, dimension, change)
    /\ UNCHANGED <<USE_OPENMP, term_deletion,
                   evaluations_with_gradient,
                   hessian_is_enabled, terms, added_terms,
                   number_of_threads, thread_gradient_scratch,
                   thread_gradient_storage>>

\* get_number_of_variables and get_number_of_scalars.
get_number_of_variables ==
    Cardinality(DOMAIN variables)

get_number_of_scalars ==
    number_of_scalars

\* ---------------------------------------------------------------- term graph
\* The argument loop of add_term: the first argument that fails a test decides.
RECURSIVE CheckArguments(_, _, _)
CheckArguments(term, arguments, var) ==
    IF var > number_of_variables(term) THEN "ok"
    ELSE IF arguments[var] \notin DOMAIN variables THEN "UnknownVariable"
    ELSE IF variables[arguments[var]].user_dimension # variable_dimension(term, var)
         THEN "VariableDimensionMismatch"
    ELSE CheckArguments(term, arguments, var + 1)

AddTermStatus(term, arguments) ==
    IF number_of_variables(term) # Len(arguments) THEN "ArityMismatch"
    ELSE CheckArguments(term, arguments, 1)

\* An add_term that never allocates Hessian scratch.
NoScratch(term) ==
    <<>>

\* The Hessian scratch of a new binding: arity x arity blocks of
\* variable_dimension(var0) x variable_dimension(var1), or nothing.
HessianScratch(term) ==
    IF hessian_is_enabled
    THEN [var0 \in 1..number_of_variables(term) |->
            [var1 \in 1..number_of_variables(term) |->
                [i \in 1..variable_dimension(term, var0) |->
                    Zeros(variable_dimension(term, var1))]]]
    ELSE <<>>

AddedTerm(term, arguments) ==
    [term |-> term, user_variables |-> arguments, hessian |-> HessianScratch(term)]

add_term(term, arguments) ==
    /\ Len(terms) < MaxTerms
    /\ local_storage_allocated' = FALSE
    /\ result' = [op |-> "add_term", status |-> AddTermStatus(term, arguments)]
    /\ IF AddTermStatus(term, arguments) = "ok"
       THEN /\ added_terms' = added_terms \cup {term}
            /\ terms' = Append(terms, AddedTerm(term, arguments))
       ELSE UNCHANGED <<added_terms, terms>>
    /\ UNCHANGED <<USE_OPENMP, term_deletion, deleted, handed,
                   evaluations_with_gradient,
                   hessian_is_enabled, variables, number_of_scalars,
                   number_of_threads, thread_gradient_scratch,
                   thread_gradient_storage, order>>

\* ------------------------------------------------------------ configuration
\* set_number_of_threads as it would be without the assignment at 295.
SetThreadsKeepingStorage(num) ==
    /\ IF USE_OPENMP /\ num > 0
       THEN /\ number_of_threads' = num
            /\ result' = [op |-> "set_number_of_threads", num |-> num,
                          status |-> "ok"]
       ELSE /\ result' = [op |-> "set_number_of_threads", num |-> num,
                          status |-> IF USE_OPENMP THEN "InvalidNumberOfThreads"
                                     ELSE "ok"]
            /\ UNCHANGED number_of_threads
    /\ UNCHANGED <<USE_OPENMP, term_deletion, deleted, handed,
                   evaluations_with_gradient,
                   hessian_is_enabled, variables, number_of_scalars, terms,
                   added_terms, local_storage_allocated, thread_gradient_scratch,
                   thread_gradient_storage, order>>

set_number_of_threads(num) ==
    /\ IF USE_OPENMP
       THEN IF num <= 0
            THEN /\ result' = [op |-> "set_number_of_threads", num |-> num,
                               status |-> "InvalidNumberOfThreads"]
                 /\ UNCHANGED <<local_storage_allocated, number_of_threads>>
            ELSE /\ local_storage_allocated' = FALSE
                 /\ number_of_threads' = num
                 /\ result' = [op |-> "set_number_of_threads", num |-> num, status |-> "ok"]
       ELSE /\ result' = [op |-> "set_number_of_threads", num |-> num, status |-> "ok"]
            /\ UNCHANGED <<local_storage_allocated, number_of_threads>>
    /\ UNCHANGED <<USE_OPENMP, term_deletion, deleted, handed,
                   evaluations_with_gradient,
                   hessian_is_enabled, variables, number_of_scalars,
                   terms, added_terms, thread_gradient_scratch,
                   thread_gradient_storage, order>>

\* The caller switches Hessian support by assigning the public member.
set_hessian_is_enabled(enabled) ==
    /\ hessian_is_enabled' = enabled
    /\ result' = [op |-> "hessian_is_enabled", status |-> "ok"]
    /\ UNCHANGED <<USE_OPENMP, term_deletion, deleted, handed,
                   evaluations_with_gradient,
                   variables, number_of_scalars, terms, added_terms,
                   number_of_threads, local_storage_allocated,
                   thread_gradient_scratch, thread_gradient_storage, order>>

\* ------------------------------------------------------- local storage
MaxArity ==
    MaxOf({Len(terms[k].user_variables) : k \in 1..Len(terms)})

MaxVariableDimension ==
    MaxOf({variables[b].user_dimension : b \in DOMAIN variables})

\* resize() leaves a vector's entries uninitialised: contents is what they hold.
allocate_local_storage(contents) ==
    [scratch |-> [t \in 1..number_of_threads |-> <<MaxArity, MaxVariableDimension>>],
     storage |-> [t \in 1..number_of_threads |->
                     [i \in 1..number_of_scalars |-> contents]]]

\* "Initialize each thread's global gradient": setZero on every thread's vector.
InitializeThreadGradients(storage) ==
    [t \in DOMAIN storage |-> Zeros(Len(storage[t]))]

\* ------------------------------------------------------------- copy-in
\* x[k] for a 0-based k; outside x the read returns whatever lies there.
ReadX(xv, k, junk) ==
    IF k + 1 \in 1..Len(xv) THEN xv[k + 1] ELSE junk

\* The new temp_space of one variable.
CopyVariable(var_info, xv, junk) ==
    IF var_info.change_of_variables = NULL
    THEN [i \in 1..var_info.user_dimension |->
             ReadX(xv, var_info.global_index + i - 1, junk)]
    ELSE LET c == var_info.change_of_variables
             t == [i \in 1..t_dimension(c) |->
                      ReadX(xv, var_info.global_index + i - 1, junk)]
             out == t_to_x(c, t)
         IN  \* t_to_x writes x_dimension entries at &temp_space[0]
             [i \in 1..Len(var_info.temp_space) |->
                 IF i <= Len(out) THEN out[i] ELSE var_info.temp_space[i]]

\* copy_global_to_local reads x or writes temp_space out of range.
CopyOutOfRange(var_info, xv) ==
    IF var_info.change_of_variables = NULL
    THEN var_info.global_index + var_info.user_dimension > Len(xv)
    ELSE \/ var_info.global_index + t_dimension(var_info.change_of_variables) > Len(xv)
         \/ x_dimension(var_info.change_of_variables) > Len(var_info.temp_space)

copy_global_to_local(xv, junk) ==
    [b \in DOMAIN variables |->
        [variables[b] EXCEPT !.temp_space = CopyVariable(variables[b], xv, junk)]]

CopyUndefined(xv) ==
    \E b \in DOMAIN variables : CopyOutOfRange(variables[b], xv)

\* copy_global_to_local calls t_to_x on every record's object: some record
\* holds an object that has been deleted.
HoldsDeleted ==
    \E b \in DOMAIN variables :
        /\ variables[b].change_of_variables # NULL
        /\ BagIn(variables[b].change_of_variables, deleted.change_of_variables)

\* ------------------------------------------------------- the term loop
\* temp_variables: the buffers of a binding's arguments.
TempVariables(k) ==
    [var \in 1..Len(terms[k].user_variables) |->
        variables[terms[k].user_variables[var]].temp_space]

UserVariable(k, var) ==
    variables[terms[k].user_variables[var]]

\* s with g added at the 0-based offset; entries past the end of s are lost.
AddAt(s, offset, g) ==
    [p \in 1..Len(s) |->
        s[p] + (IF p - offset \in 1..Len(g) THEN g[p - offset] ELSE 0)]

\* One argument's gradient put into the thread's global gradient.
PutGradient(s, var_info, g) ==
    IF var_info.change_of_variables = NULL
    THEN AddAt(s, var_info.global_index, g)
    ELSE AddAt(s, var_info.global_index,
               update_gradient(var_info.change_of_variables, g))

PutOutOfRange(s, var_info) ==
    IF var_info.change_of_variables = NULL
    THEN var_info.global_index + var_info.user_dimension > Len(s)
    ELSE \/ var_info.global_index + t_dimension(var_info.change_of_variables) > Len(s)
         \/ x_dimension(var_info.change_of_variables) > var_info.user_dimension

\* A term loop that never looks for a change of variables.
NoneChanged(k) ==
    0

\* The first argument of binding k that has a change of variables, or 0.
FirstChanged(k) ==
    LET changed == {var \in 1..Len(terms[k].user_variables) :
                       UserVariable(k, var).change_of_variables # NULL}
    IN  IF changed = {} THEN 0
        ELSE CHOOSE var \in changed : \A w \in changed : var <= w

\* The gradient loop over the arguments var..last of binding k.
RECURSIVE PutGradients(_, _, _, _, _)
PutGradients(s, k, g, var, last) ==
    IF var > last THEN s
    ELSE PutGradients(PutGradient(s, UserVariable(k, var), g[var]), k, g, var + 1, last)

\* The iterations a thread still has to run, and the one it runs next.
Pending(t) ==
    {k \in 1..Len(terms) : schedule[k] = t /\ k \notin processed}

NextIteration(t) ==
    CHOOSE k \in Pending(t) : \A j \in Pending(t) : k <= j

\* What iteration k raises: a Term's own failure, the sparse overload's
\* test of change_of_variables, or nothing.
IterationError(k) ==
    IF TermThrows(terms[k].term) THEN "TermEvaluationFailure"
    ELSE IF mode = "sparse" /\ FirstChanged(k) # 0
         THEN "UnsupportedTransformForHessian"
    ELSE "ok"

\* How far the gradient loop of iteration k gets.
LastPut(k) ==
    IF mode = "sparse" /\ FirstChanged(k) # 0
    THEN FirstChanged(k) - 1
    ELSE Len(terms[k].user_variables)

IterationOutOfRange(t, k) ==
    \/ /\ mode \in {"dense", "sparse"}
       /\ terms[k].hessian = <<>>
    \/ /\ mode # "value"
       /\ \E var \in 1..LastPut(k) :
              PutOutOfRange(thread_gradient_storage[t], UserVariable(k, var))

\* The body of the parallel for, run by thread t for iteration k.
Iteration(t, k) ==
    LET term == terms[k].term
        a == TempVariables(k)
    IN  /\ processed' = processed \cup {k}
        /\ IF TermThrows(term)
           THEN UNCHANGED <<value, terms, thread_gradient_storage, undefined>>
           ELSE /\ value' = value + TermValue(term, a)
                /\ terms' = IF mode \in {"dense", "sparse"} /\ terms[k].hessian # <<>>
                            THEN [terms EXCEPT ![k].hessian = TermHessian(term, a)]
                            ELSE terms
                /\ thread_gradient_storage' =
                       IF mode = "value" THEN thread_gradient_storage
                       ELSE [thread_gradient_storage EXCEPT
                                ![t] = PutGradients(@, k, TermGradient(term, a),
                                                    1, LastPut(k))]
                /\ undefined' = (undefined \/ IterationOutOfRange(t, k))
        /\ first_error' = IF IterationError(k) # "ok" /\ first_error = <<>>
                          THEN <<IterationError(k), k>> ELSE first_error
        /\ IF IterationError(k) = "ok"
           THEN UNCHANGED <<evaluation_errors, pc, result>>
           ELSE IF USE_OPENMP
                THEN \* caught inside the loop body
                     /\ evaluation_errors' =
                            [evaluation_errors EXCEPT ![t] = <<IterationError(k), k>>]
                     /\ UNCHANGED <<pc, result>>
                ELSE \* the exception leaves evaluate
                     /\ pc' = "returned"
                     /\ result' = [op |-> "evaluate", status |-> IterationError(k)]
                     /\ UNCHANGED evaluation_errors
        /\ UNCHANGED <<USE_OPENMP, term_deletion, deleted, handed,
                   evaluations_with_gradient,
                       hessian_is_enabled, variables, number_of_scalars,
                       added_terms, number_of_threads, local_storage_allocated,
                       thread_gradient_scratch, order, calls, mode, x, outputs_sized,
                       schedule, gradient, hessian, sparse_hessian>>

\* ------------------------------------------------- rethrow and assembly
\* A join that finds no stored exception.
NothingRethrown ==
    <<>>

\* "Now that we are outside the OpenMP block, we can rethrow exceptions":
\* the first non-empty slot of evaluation_errors, or <<>>.
Rethrown ==
    LET set == {t \in DOMAIN evaluation_errors : evaluation_errors[t] # <<>>}
    IN  IF set = {} THEN <<>>
        ELSE evaluation_errors[CHOOSE t \in set : \A u \in set : t <= u]

\* A reduction that takes the first thread's vector for the whole gradient.
FirstThreadGradient(storage) ==
    [i \in 1..number_of_scalars |->
        IF i \in 1..Len(storage[1]) THEN storage[1][i] ELSE 0]

\* "Sum the gradients from all different terms": gradient resized to
\* number_of_scalars, set to zero, then every thread's vector added.
SumGradients(storage) ==
    [i \in 1..number_of_scalars |->
        SumSeq([t \in 1..number_of_threads |->
                   IF i \in 1..Len(storage[t]) THEN storage[t][i] ELSE 0])]

\* The entries of binding k's Hessian blocks, in the loops' index space:
\* <<k, var0, var1, i, j>> with 0-based i, j.
BlockEntries(k) ==
    LET arity == number_of_variables(terms[k].term)
    IN  {<<k, var0, var1, i, j>> :
            var0 \in 1..arity, var1 \in 1..arity,
            i \in 0..(variable_dimension(terms[k].term, 1) + variable_dimension(terms[k].term, 2)),
            j \in 0..(variable_dimension(terms[k].term, 1) + variable_dimension(terms[k].term, 2))}

HessianEntries(k) ==
    {e \in BlockEntries(k) :
        /\ e[4] < variable_dimension(terms[k].term, e[2])
        /\ e[5] < variable_dimension(terms[k].term, e[3])}

GlobalRow(e) ==
    e[4] + UserVariable(e[1], e[2]).global_index

GlobalColumn(e) ==
    e[5] + UserVariable(e[1], e[3]).global_index

\* part_hessian(i, j); a binding without Hessian scratch has nothing to read.
PartHessian(e, junk) ==
    IF terms[e[1]].hessian = <<>> THEN junk
    ELSE terms[e[1]].hessian[e[2]][e[3]][e[4] + 1][e[5] + 1]

RECURSIVE SumEntries(_, _)
SumEntries(S, junk) ==
    IF S = {} THEN 0
    ELSE LET e == CHOOSE e \in S : TRUE
         IN  PartHessian(e, junk) + SumEntries(S \ {e}, junk)

\* The dense loop stops at the first argument with a change of variables.
FirstChangedTerm ==
    LET changed == {k \in 1..Len(terms) : FirstChanged(k) # 0}
    IN  IF changed = {} THEN 0
        ELSE CHOOSE k \in changed : \A j \in changed : k <= j

\* The entries the dense loop adds before it returns or throws.
DenseWritten ==
    LET all == UNION {HessianEntries(k) : k \in 1..Len(terms)}
    IN  IF FirstChangedTerm = 0 THEN all
        ELSE {e \in all :
                 \/ e[1] < FirstChangedTerm
                 \/ e[1] = FirstChangedTerm /\ e[2] < FirstChanged(FirstChangedTerm)}

\* hessian->coeffRef(row, col) += ... on the column-major n x n matrix: the
\* entry lands at data[row + col * n].
DenseHessian(junk) ==
    LET n == number_of_scalars
    IN  Matrix(n, n,
               [p \in 1..(n * n) |->
                   SumEntries({e \in DenseWritten :
                                  GlobalRow(e) + GlobalColumn(e) * n = p - 1}, junk)])

DenseOutOfRange ==
    \E e \in DenseWritten :
        \/ GlobalRow(e) >= number_of_scalars
        \/ GlobalColumn(e) >= number_of_scalars
        \/ terms[e[1]].hessian = <<>>

\* hessian->setFromTriplets(indices): equal coordinates are summed; the
\* matrix keeps the shape the caller gave it.
SparseTriplets ==
    UNION {HessianEntries(k) : k \in 1..Len(terms)}

SparseCoordinates(H) ==
    {c \in {<<GlobalRow(e), GlobalColumn(e)>> : e \in SparseTriplets} :
        c[1] < H.rows /\ c[2] < H.cols}

SetFromTriplets(H, junk) ==
    SparseMatrix(H.rows, H.cols,
                 [c \in SparseCoordinates(H) |->
                     SumEntries({e \in SparseTriplets :
                                    <<GlobalRow(e), GlobalColumn(e)>> = c}, junk)])

SparseOutOfRange(H) ==
    \E e \in SparseTriplets :
        \/ GlobalRow(e) >= H.rows
        \/ GlobalColumn(e) >= H.cols
        \/ terms[e[1]].hessian = <<>>

\* ------------------------------------------------------------- evaluate
\* The tests at the head of the two Hessian overloads.
NullHessian(m) ==
    m = "sparse_null"

\* The test as only the dense overload makes it.
DenseOnlyTest(m) ==
    m = "dense" /\ ~hessian_is_enabled

HessianNotEnabled(m) ==
    m \in {"dense", "sparse"} /\ ~hessian_is_enabled

\* The outputs as the caller hands them in.
CallerGradient(sized) ==
    IF sized THEN Junk(number_of_scalars) ELSE <<>>

CallerHessian(sized) ==
    IF sized
    THEN Matrix(number_of_scalars, number_of_scalars,
                Junk(number_of_scalars * number_of_scalars))
    ELSE Matrix(0, 0, <<>>)

CallerSparseHessian(sized) ==
    IF sized
    THEN SparseMatrix(number_of_scalars, number_of_scalars, <<>>)
    ELSE SparseMatrix(0, 0, <<>>)

\* evaluate up to the parallel loop.
EvaluateBegin(m, xv, sized, contents, junk, sched) ==
    /\ pc = "setup"
    /\ mode' = m
    /\ x' = xv
    /\ outputs_sized' = sized
    /\ gradient' = CallerGradient(sized)
    /\ hessian' = CallerHessian(sized)
    /\ sparse_hessian' = CallerSparseHessian(sized)
    /\ value' = 0
    /\ processed' = {}
    /\ first_error' = <<>>
    /\ IF NullHessian(m) \/ HessianNotEnabled(m)
       THEN /\ pc' = "returned"
            /\ result' = [op |-> "evaluate",
                          status |-> IF NullHessian(m) THEN "NullHessianTarget"
                                     ELSE "HessianDisabled"]
            /\ UNCHANGED <<variables, local_storage_allocated, thread_gradient_scratch,
                           thread_gradient_storage, schedule, evaluation_errors,
                           undefined>>
       ELSE /\ pc' = "parallel"
            /\ result' = [op |-> "evaluate", status |-> "running"]
            /\ schedule' = sched
            /\ evaluation_errors' = IF USE_OPENMP
                                    THEN [t \in 1..number_of_threads |-> <<>>]
                                    ELSE <<>>
            /\ variables' = copy_global_to_local(xv, junk)
            /\ undefined' = (CopyUndefined(xv) \/ HoldsDeleted)
            /\ IF m = "value"
               THEN UNCHANGED <<local_storage_allocated, thread_gradient_scratch,
                                thread_gradient_storage>>
               ELSE LET local == IF local_storage_allocated
                                 THEN [scratch |-> thread_gradient_scratch,
                                       storage |-> thread_gradient_storage]
                                 ELSE allocate_local_storage(contents)
                    IN  /\ local_storage_allocated' = TRUE
                        /\ thread_gradient_scratch' = local.scratch
                        /\ thread_gradient_storage' =
                               InitializeThreadGradients(local.storage)
    /\ evaluations_with_gradient' = IF m = "value"
                                    THEN evaluations_with_gradient
                                    ELSE evaluations_with_gradient + 1
    /\ UNCHANGED <<USE_OPENMP, term_deletion, deleted, handed, hessian_is_enabled,
                   number_of_scalars, terms, added_terms, number_of_threads, order,
                   calls>>

\* evaluate after the parallel loop.
EvaluateEnd(junk) ==
    /\ pc = "parallel"
    /\ processed = 1..Len(terms)
    /\ pc' = "returned"
    /\ IF Rethrown # <<>>
       THEN /\ result' = [op |-> "evaluate", status |-> Rethrown[1]]
            /\ UNCHANGED <<gradient, hessian, sparse_hessian, undefined>>
       ELSE IF mode = "value"
       THEN /\ result' = [op |-> "evaluate", status |-> "ok"]
            /\ UNCHANGED <<gradient, hessian, sparse_hessian, undefined>>
       ELSE /\ gradient' = SumGradients(thread_gradient_storage)
            /\ hessian' = IF mode = "dense" THEN DenseHessian(junk) ELSE hessian
            /\ sparse_hessian' = IF mode = "sparse"
                                 THEN SetFromTriplets(sparse_hessian, junk)
                                 ELSE sparse_hessian
            /\ undefined' = \/ undefined
                            \/ mode = "dense" /\ DenseOutOfRange
                            \/ mode = "sparse" /\ SparseOutOfRange(sparse_hessian)
            /\ result' = [op |-> "evaluate",
                          status |-> IF mode = "dense" /\ FirstChangedTerm # 0
                                     THEN "UnsupportedTransformForHessian"
                                     ELSE "ok"]
    /\ UNCHANGED <<USE_OPENMP, term_deletion, deleted, handed,
                   evaluations_with_gradient,
                   hessian_is_enabled, variables, number_of_scalars,
                   terms, added_terms, number_of_threads, local_storage_allocated,
                   thread_gradient_scratch, thread_gradient_storage, order, calls,
                   mode, x, outputs_sized, schedule, processed, evaluation_errors,
                   first_error, value>>

\* ------------------------------------------------------------ specification
SetupCall ==
    /\ pc = "setup"
    /\ calls < MaxSetupCalls
    /\ calls' = calls + 1
    /\ UNCHANGED evaluation_vars

AddVariable ==
    /\ SetupCall
    /\ \E variable \in Blocks, dimension \in Dimensions, change \in ChangeObjects \cup {NULL} :
           add_variable_internal(variable, dimension, change)

AddTerm ==
    /\ SetupCall
    /\ \E term \in TermObjects, n \in 1..2 :
           \E arguments \in [1..n -> Blocks] :
               add_term(term, arguments)

SetNumberOfThreads ==
    /\ SetupCall
    /\ \E num \in 0..MaxThreads :
           set_number_of_threads(num)

SetHessianEnabled ==
    /\ SetupCall
    /\ \E enabled \in BOOLEAN :
           set_hessian_is_enabled(enabled)

Modes ==
    {"value", "gradient", "dense", "sparse", "sparse_null"}

\* The caller's x has number_of_scalars entries.
Inputs ==
    {SubSeq(xv, 1, number_of_scalars) : xv \in XPool}

\* The overloads that take outputs get them empty or sized.
OutputShapes(m) ==
    IF m \in {"gradient", "dense", "sparse"} THEN BOOLEAN ELSE {FALSE}

\* What the memory outside a buffer can hold, where the call reads it.
Outside(reads) ==
    IF reads THEN JunkValues ELSE {0}

Evaluate ==
    \E m \in Modes, xv \in Inputs :
        \E sized \in OutputShapes(m), sched \in [1..Len(terms) -> 1..number_of_threads],
           contents \in Outside(m \notin {"value", "sparse_null"}),
           junk \in Outside(CopyUndefined(xv)) :
            EvaluateBegin(m, xv, sized, contents, junk, sched)

Worker ==
    /\ pc = "parallel"
    /\ \E t \in 1..number_of_threads :
           /\ Pending(t) # {}
           /\ Iteration(t, NextIteration(t))

Return ==
    \E junk \in Outside(\E k \in 1..Len(terms) : terms[k].hessian = <<>>) :
        EvaluateEnd(junk)

\* create_sparse_hessian(H): the loops of the sparse overload with 1.0 for
\* every entry, on a target it resizes itself; no term is evaluated.
PatternCoordinates ==
    {c \in {<<GlobalRow(e), GlobalColumn(e)>> : e \in SparseTriplets} :
        c[1] < number_of_scalars /\ c[2] < number_of_scalars}

create_sparse_hessian ==
    /\ pc = "setup"
    /\ pc' = "returned"
    /\ mode' = "pattern"
    /\ result' = [op |-> "create_sparse_hessian", status |-> "ok"]
    /\ sparse_hessian' =
           SparseMatrix(number_of_scalars, number_of_scalars,
                        [c \in PatternCoordinates |->
                            Cardinality({e \in SparseTriplets :
                                            <<GlobalRow(e), GlobalColumn(e)>> = c})])
    /\ undefined' = \E e \in SparseTriplets :
                        \/ GlobalRow(e) >= number_of_scalars
                        \/ GlobalColumn(e) >= number_of_scalars
    /\ UNCHANGED <<USE_OPENMP, term_deletion, deleted, handed,
                   evaluations_with_gradient,
                   hessian_is_enabled, variables, number_of_scalars,
                   terms, added_terms, number_of_threads, local_storage_allocated,
                   thread_gradient_scratch, thread_gradient_storage, order, calls,
                   x, outputs_sized, schedule, processed, evaluation_errors,
                   first_error, value, gradient, hessian>>

CreateSparseHessian ==
    create_sparse_hessian

Next ==
    \/ AddVariable
    \/ AddTerm
    \/ SetNumberOfThreads
    \/ SetHessianEnabled
    \/ Evaluate
    \/ Worker
    \/ Return
    \/ CreateSparseHessian

Spec ==
    Init /\ [][Next]_vars

\* The registry alone: add_variable calls in any number and order.
Register ==
    /\ pc = "setup"
    /\ \E variable \in Blocks, dimension \in Dimensions, change \in ChangeObjects \cup {NULL} :
           add_variable_internal(variable, dimension, change)
    /\ UNCHANGED <<calls, evaluation_vars>>

NextVariables ==
    Register

SpecVariables ==
    Init /\ [][NextVariables]_vars

\* ------------------------------------------------------------ vocabulary
\* A block is registered once an add_variable call on it has returned.
Registered(b) ==
    b \in Range(order)

Returned(modes) ==
    /\ pc = "returned"
    /\ result.op = "evaluate"
    /\ mode \in modes

Succeeded(modes) ==
    /\ Returned(modes)
    /\ result.status = "ok"

\* Some argument of some binding refers to a variable with a change of variables.
SomeArgumentChanged ==
    \E k \in 1..Len(terms) :
        \E var \in 1..Len(terms[k].user_variables) :
            UserVariable(k, var).change_of_variables # NULL

SomeTermThrows ==
    \E k \in 1..Len(terms) : TermThrows(terms[k].term)

\* ------------------------------------------------- the registry (C3, C4, C6, C7)
\* C3: in every state reached by add_variable calls alone, those that fail
\* included, get_number_of_scalars() is the sum of solver_dimension over the
\* records of the map and get_number_of_variables() is the number of distinct
\* blocks that were registered.
C3_CountsMatchRegistry ==
    /\ get_number_of_scalars =
           SumSeq([b \in 1..NumBlocks |->
                      IF b \in DOMAIN variables THEN variables[b].solver_dimension ELSE 0])
    /\ get_number_of_variables = Len(order)

\* C4: the k-th block registered has for global_index the sum of the
\* solver_dimension of the blocks registered before it, whatever the
\* addresses; the slices [global_index, global_index + solver_dimension) of
\* the variables are pairwise disjoint and cover [0, number_of_scalars).
Slice(b) ==
    {i \in 0..(number_of_scalars + NumBlocks * 2) :
        /\ variables[b].global_index <= i
        /\ i < variables[b].global_index + variables[b].solver_dimension}

C4_OffsetsInRegistrationOrder ==
    /\ \A k \in 1..Len(order) :
           variables[order[k]].global_index =
               SumSeq([j \in 1..(k - 1) |-> variables[order[j]].solver_dimension])
    /\ \A b \in DOMAIN variables : \A c \in DOMAIN variables :
           b # c => Slice(b) \cap Slice(c) = {}
    /\ UNION {Slice(b) : b \in DOMAIN variables} = 0..(number_of_scalars - 1)

\* Two blocks registered against the order of their addresses.
C4_Witness ==
    /\ Len(order) = 2
    /\ order[1] > order[2]
    /\ variables[order[1]].solver_dimension = 2
    /\ variables[order[2]].global_index = 2

\* C6: add_variable on a registered block with another dimension than the
\* recorded one ends in DimensionMismatch and leaves the record and
\* number_of_scalars as they were; no step of any operation changes the
\* user_dimension of a registered variable.
C6_DimensionMismatchOnReRegistration ==
    [][/\ \A variable \in Blocks, dimension \in Dimensions,
             change \in ChangeObjects \cup {NULL} :
               (/\ Registered(variable)
                /\ variables[variable].user_dimension # dimension
                /\ add_variable_internal(variable, dimension, change))
               => /\ result'.status = "DimensionMismatch"
                  /\ variables'[variable] = variables[variable]
                  /\ number_of_scalars' = number_of_scalars
       /\ \A b \in Blocks :
              Registered(b)
              => /\ b \in DOMAIN variables'
                 /\ variables'[b].user_dimension = variables[b].user_dimension]_vars

\* A re-registration with another dimension was refused while the block
\* holds a change of variables.
C6_Witness ==
    /\ result.op = "add_variable"
    /\ result.status = "DimensionMismatch"
    /\ \E b \in Blocks :
           /\ Registered(b)
           /\ variables[b].change_of_variables # NULL
           /\ variables[b].user_dimension = 2

\* C7: a change of variables whose x_dimension differs from the recorded
\* user_dimension, or whose t_dimension differs from the recorded
\* solver_dimension, is not installed by a re-registration: every registered
\* variable that has a change of variables agrees with it on both dimensions.
C7_InstalledTransformsMatch ==
    \A b \in Blocks :
        (Registered(b) /\ variables[b].change_of_variables # NULL)
        => /\ x_dimension(variables[b].change_of_variables) = variables[b].user_dimension
           /\ t_dimension(variables[b].change_of_variables) = variables[b].solver_dimension

\* ------------------------------------------------------ the term graph (C5)
\* The failures the arguments of an add_term call have deserved: an
\* unregistered argument, or a registered one of another dimension than
\* the term declares.
ArgumentFailures(term, arguments) ==
    {f \in {"UnknownVariable", "VariableDimensionMismatch"} :
        \E var \in 1..Len(arguments) :
            IF f = "UnknownVariable"
            THEN ~Registered(arguments[var])
            ELSE /\ Registered(arguments[var])
                 /\ variables[arguments[var]].user_dimension # variable_dimension(term, var)}

\* C5: add_term ends in ArityMismatch when the number of arguments is not
\* the term's arity, in UnknownVariable or VariableDimensionMismatch when an
\* argument is unregistered or of another dimension than declared (either
\* one when both apply), and then terms and added_terms are unchanged;
\* otherwise it succeeds and appends the one new binding.
C5_AddTermFailuresAndFrame ==
    [][\A term \in TermObjects, n \in 1..2 :
          \A arguments \in [1..n -> Blocks] :
              (calls' = calls + 1 /\ add_term(term, arguments))
              => IF number_of_variables(term) # Len(arguments)
                 THEN /\ result'.status = "ArityMismatch"
                      /\ terms' = terms
                      /\ added_terms' = added_terms
                 ELSE IF ArgumentFailures(term, arguments) # {}
                 THEN /\ result'.status \in ArgumentFailures(term, arguments)
                      /\ terms' = terms
                      /\ added_terms' = added_terms
                 ELSE /\ result'.status = "ok"
                      /\ Len(terms') = Len(terms) + 1
                      /\ SubSeq(terms', 1, Len(terms)) = terms
                      /\ terms'[Len(terms')].term = term
                      /\ terms'[Len(terms')].user_variables = arguments]_vars

\* --------------------------------------------------- evaluate (C8, C9)
\* C8: with hessian_is_enabled false, the dense overload and the sparse
\* overload with a target both end in HessianDisabled, and the caller's
\* gradient, dense Hessian and sparse Hessian are as the caller handed them in.
C8_HessianDisabledLeavesOutputs ==
    (Returned({"dense", "sparse"}) /\ ~hessian_is_enabled)
    => /\ result.status = "HessianDisabled"
       /\ gradient = CallerGradient(outputs_sized)
       /\ hessian = CallerHessian(outputs_sized)
       /\ sparse_hessian = CallerSparseHessian(outputs_sized)

\* The sparse overload refused a call that came with sized outputs on a
\* function that has variables and a binding.
C8_Witness ==
    /\ Returned({"sparse"})
    /\ ~hessian_is_enabled
    /\ result.status = "HessianDisabled"
    /\ outputs_sized
    /\ number_of_scalars > 0
    /\ terms # <<>>

\* C9 as the specification states it: whenever an argument of a binding has
\* a change of variables, a Hessian evaluation, dense or sparse, ends in
\* UnsupportedTransformForHessian; when none has, it never does.
C9_TransformAlwaysUnsupported ==
    Returned({"dense", "sparse"})
    => /\ SomeArgumentChanged => result.status = "UnsupportedTransformForHessian"
       /\ ~SomeArgumentChanged => result.status # "UnsupportedTransformForHessian"

\* C9: whenever an argument of a binding has a change of variables, a
\* Hessian evaluation, dense or sparse, never succeeds: with
\* hessian_is_enabled false it ends in HessianDisabled, otherwise in a
\* term's own failure or in UnsupportedTransformForHessian, and in the
\* latter when no term fails; when no argument has a change of variables
\* it never ends in UnsupportedTransformForHessian.
C9_TransformUnsupportedWhenEnabled ==
    Returned({"dense", "sparse"})
    => /\ SomeArgumentChanged
          => /\ result.status # "ok"
             /\ ~hessian_is_enabled => result.status = "HessianDisabled"
             /\ hessian_is_enabled
                => result.status \in {"UnsupportedTransformForHessian",
                                      "TermEvaluationFailure"}
             /\ (hessian_is_enabled /\ ~SomeTermThrows)
                => result.status = "UnsupportedTransformForHessian"
       /\ ~SomeArgumentChanged => result.status # "UnsupportedTransformForHessian"

\* The dense overload met a change of variables after both workers had run.
C9_Witness ==
    /\ Returned({"dense"})
    /\ SomeArgumentChanged
    /\ ~SomeTermThrows
    /\ Len(terms) = 2
    /\ result.status = "UnsupportedTransformForHessian"

\* ------------------------------------------- the parallel loop (C2)
\* The term loop run by one thread: the bindings in index order, one
\* gradient vector.
RECURSIVE SequentialGradient(_)
SequentialGradient(k) ==
    IF k = 0 THEN Zeros(number_of_scalars)
    ELSE PutGradients(SequentialGradient(k - 1), k,
                      TermGradient(terms[k].term, TempVariables(k)),
                      1, Len(terms[k].user_variables))

SequentialValue ==
    SumSeq([k \in 1..Len(terms) |-> TermValue(terms[k].term, TempVariables(k))])

\* The Hessian blocks as the terms give them at the copied-in arguments; a
\* binding without Hessian scratch gives what lies outside it.
BlockEntry(e, junk) ==
    IF terms[e[1]].hessian = <<>> THEN junk
    ELSE TermHessian(terms[e[1]].term, TempVariables(e[1]))[e[2]][e[3]][e[4] + 1][e[5] + 1]

RECURSIVE SumBlocks(_, _)
SumBlocks(S, junk) ==
    IF S = {} THEN 0
    ELSE LET e == CHOOSE e \in S : TRUE
         IN  BlockEntry(e, junk) + SumBlocks(S \ {e}, junk)

AllEntries ==
    UNION {HessianEntries(k) : k \in 1..Len(terms)}

SequentialDense(junk) ==
    LET n == number_of_scalars
    IN  Matrix(n, n,
               [p \in 1..(n * n) |->
                   SumBlocks({e \in AllEntries :
                                 GlobalRow(e) + GlobalColumn(e) * n = p - 1}, junk)])

SequentialSparse(junk) ==
    LET H == CallerSparseHessian(outputs_sized)
        coordinates == {c \in {<<GlobalRow(e), GlobalColumn(e)>> : e \in AllEntries} :
                           c[1] < H.rows /\ c[2] < H.cols}
    IN  SparseMatrix(H.rows, H.cols,
                     [c \in coordinates |->
                         SumBlocks({e \in AllEntries :
                                       <<GlobalRow(e), GlobalColumn(e)>> = c}, junk)])

SlicesDefined ==
    \A b \in DOMAIN variables :
        /\ variables[b].change_of_variables # NULL
               => ~BagIn(variables[b].change_of_variables, deleted.change_of_variables)
        /\ variables[b].global_index + variables[b].solver_dimension <= Len(x)
        /\ IF variables[b].change_of_variables = NULL
           THEN variables[b].solver_dimension = variables[b].user_dimension
           ELSE /\ t_dimension(variables[b].change_of_variables) = variables[b].solver_dimension
                /\ x_dimension(variables[b].change_of_variables) = variables[b].user_dimension

SliceOfX(var_info) ==
    SubSeq(x, var_info.global_index + 1, var_info.global_index + var_info.solver_dimension)

UserSpaceValue(var_info) ==
    IF var_info.change_of_variables = NULL THEN SliceOfX(var_info)
    ELSE t_to_x(var_info.change_of_variables, SliceOfX(var_info))

UserSpaceArguments(k) ==
    [var \in 1..Len(terms[k].user_variables) |-> UserSpaceValue(UserVariable(k, var))]

\* What argument var of binding k adds to the gradient, from its global_index on.
GradientPart(k, var) ==
    LET g == TermGradient(terms[k].term, UserSpaceArguments(k))[var]
    IN  IF UserVariable(k, var).change_of_variables = NULL THEN g
        ELSE update_gradient(UserVariable(k, var).change_of_variables, g)

GradientPartAt(k, var, i) ==
    LET offset == i - UserVariable(k, var).global_index
    IN  IF offset \in 1..Len(GradientPart(k, var)) THEN GradientPart(k, var)[offset] ELSE 0

SumOfTerms ==
    SumSeq([k \in 1..Len(terms) |-> TermValue(terms[k].term, UserSpaceArguments(k))])

SumOfGradients ==
    [i \in 1..number_of_scalars |->
        SumSeq([k \in 1..Len(terms) |->
                   SumSeq([var \in 1..Len(terms[k].user_variables) |->
                              GradientPartAt(k, var, i)])])]

\* C1: evaluate(x) and evaluate(x, gradient), when they return, return the
\* sum over the bindings of the term's value at the user-space values of
\* its arguments, each variable having its slice of x; the gradient is the
\* sum of the local gradients added at global_index, or taken through
\* update_gradient, and nothing else.
C1_ValueAndGradient ==
    Succeeded({"value", "gradient"})
    => /\ SlicesDefined
       /\ ~undefined
       /\ value = SumOfTerms
       /\ mode = "gradient" => gradient = SumOfGradients

\* The same for the calls in which every variable has its slice: what
\* remains of C1 on a registry whose records agree with their transforms.
ValueAndGradientOnDefinedSlices ==
    (Succeeded({"value", "gradient"}) /\ SlicesDefined)
    => /\ ~undefined
       /\ value = SumOfTerms
       /\ mode = "gradient" => gradient = SumOfGradients

\* ------------------------------------------------ the dense Hessian (C10)
\* Entry e of the Hessian blocks of its binding's term, at the user-space
\* values of the arguments.
TermBlockEntry(e) ==
    TermHessian(terms[e[1]].term, TempVariables(e[1]))[e[2]][e[3]][e[4] + 1][e[5] + 1]

RECURSIVE SumTermBlocks(_)
SumTermBlocks(S) ==
    IF S = {} THEN 0
    ELSE LET e == CHOOSE e \in S : TRUE
         IN  TermBlockEntry(e) + SumTermBlocks(S \ {e})

\* Entry (r, c) of the Hessian as the sum of the block entries that fall on it.
SumAt(r, c) ==
    SumTermBlocks({e \in AllEntries : GlobalRow(e) = r /\ GlobalColumn(e) = c})

\* C10: after a successful dense evaluate, entry (r, c) of hessian is the
\* sum over the bindings, their argument pairs (var0, var1) and the
\* in-block positions (i, j) with global_index(var0) + i = r and
\* global_index(var1) + j = c of the block entries; entries no block falls
\* on are 0.
C10_DenseHessianAdditive ==
    Succeeded({"dense"})
    => hessian = Matrix(number_of_scalars, number_of_scalars,
                        [p \in 1..(number_of_scalars * number_of_scalars) |->
                            SumAt((p - 1) % number_of_scalars,
                                  (p - 1) \div number_of_scalars)])

\* The same for the calls that stay inside their buffers: what remains of
\* C10 when every binding has its blocks and every variable its slice.
DenseHessianAdditiveInsideBuffers ==
    (Succeeded({"dense"}) /\ ~undefined)
    => hessian = Matrix(number_of_scalars, number_of_scalars,
                        [p \in 1..(number_of_scalars * number_of_scalars) |->
                            SumAt((p - 1) % number_of_scalars,
                                  (p - 1) \div number_of_scalars)])

\* ------------------------------------------- sparse against dense (C11)
\* The sparse matrix written out entry by entry, column-major.
Densified(H) ==
    Matrix(H.rows, H.cols,
           [p \in 1..(H.rows * H.cols) |->
               LET c == <<(p - 1) % H.rows, (p - 1) \div H.rows>>
               IN  IF c \in DOMAIN H.entries THEN H.entries[c] ELSE 0])

\* C11: on a term graph without a change of variables, a successful sparse
\* evaluate leaves a sparse Hessian that, densified, is entry by entry the
\* Hessian the dense overload assembles from the same blocks, and it
\* returns the value and the gradient of the dense overload.
C11_SparseEqualsDense ==
    (Succeeded({"sparse"}) /\ ~SomeArgumentChanged)
    => /\ \E junk \in JunkValues : Densified(sparse_hessian) = DenseHessian(junk)
       /\ value = SequentialValue
       /\ gradient = SequentialGradient(Len(terms))

\* The same for the calls whose sparse target came in with the shape
\* number_of_scalars x number_of_scalars and that stay inside their buffers.
SparseEqualsDenseOnSizedTarget ==
    (Succeeded({"sparse"}) /\ ~SomeArgumentChanged /\ outputs_sized /\ ~undefined)
    => /\ Densified(sparse_hessian) = DenseHessian(0)
       /\ Densified(sparse_hessian) =
              Matrix(number_of_scalars, number_of_scalars,
                     [p \in 1..(number_of_scalars * number_of_scalars) |->
                         SumAt((p - 1) % number_of_scalars,
                               (p - 1) \div number_of_scalars)])
       /\ value = SequentialValue
       /\ gradient = SequentialGradient(Len(terms))

\* ------------------------------------------- the sparsity pattern (C12)
\* The coordinates the loops of the sparse overload enumerate.
EnumeratedCoordinates ==
    {<<GlobalRow(e), GlobalColumn(e)>> : e \in SparseTriplets}

PatternReturned ==
    /\ pc = "returned"
    /\ result.op = "create_sparse_hessian"

\* C12: the coordinates create_sparse_hessian stores in its target are
\* exactly the coordinates the sparse evaluate enumerates for the same term
\* graph, and create_sparse_hessian evaluates no term.
C12_PatternIsEvaluationCoordinates ==
    PatternReturned
    => /\ DOMAIN sparse_hessian.entries = EnumeratedCoordinates
       /\ processed = {}
       /\ value = 0

\* The same for the term graphs whose coordinates all lie inside the
\* number_of_scalars x number_of_scalars target.
PatternIsEvaluationCoordinatesInsideTarget ==
    (PatternReturned /\ ~undefined)
    => /\ DOMAIN sparse_hessian.entries = EnumeratedCoordinates
       /\ sparse_hessian.rows = number_of_scalars
       /\ sparse_hessian.cols = number_of_scalars
       /\ processed = {}
       /\ value = 0

\* ------------------------------------------- failures of terms (C13, C14)
\* A term that throws has been evaluated in this call.
SomeTermFailed ==
    \E k \in processed : TermThrows(terms[k].term)

EvaluateReturned ==
    Returned({"value", "gradient", "dense", "sparse"})

\* C13: a term's failure leaves evaluate only after every thread has run
\* all the iterations assigned to it, those after the failing one included,
\* and a call in which a term failed never returns a value.
C13_FailureDeferredToJoin ==
    /\ (EvaluateReturned /\ result.status = "TermEvaluationFailure")
       => processed = 1..Len(terms)
    /\ (EvaluateReturned /\ SomeTermFailed) => result.status # "ok"
    /\ (pc = "parallel" /\ SomeTermFailed) => result.status = "running"

\* The same for the build with OpenMP, where the loop body catches.
FailureDeferredToJoinWithOpenMP ==
    USE_OPENMP
    => /\ (EvaluateReturned /\ result.status = "TermEvaluationFailure")
          => processed = 1..Len(terms)
       /\ (EvaluateReturned /\ SomeTermFailed) => result.status # "ok"
       /\ (pc = "parallel" /\ SomeTermFailed) => result.status = "running"

\* A call of the OpenMP build in which the first binding failed and the
\* second was evaluated all the same.
FailureDeferredWitness ==
    /\ USE_OPENMP
    /\ EvaluateReturned
    /\ result.status = "TermEvaluationFailure"
    /\ Len(terms) = 2
    /\ TermThrows(terms[1].term)
    /\ ~TermThrows(terms[2].term)
    /\ value # 0

TermsFailed ==
    {k \in processed : TermThrows(terms[k].term)}

\* C14: when several terms have failed in one evaluate, the exception
\* rethrown to the caller is the one that was thrown first; the others are
\* dropped.
C14_FirstFailureSurfaced ==
    (EvaluateReturned /\ USE_OPENMP /\ Cardinality(TermsFailed) >= 2)
    => Rethrown = first_error

\* One thread, two failing bindings: what is rethrown is the later failure.
SecondFailureSurfaced ==
    /\ EvaluateReturned
    /\ USE_OPENMP
    /\ number_of_threads = 1
    /\ first_error = <<"TermEvaluationFailure", 1>>
    /\ Rethrown = <<"TermEvaluationFailure", 2>>

\* --------------------------------------- re-registration again (C15, C16)
\* C15: add_variable on a registered block, with the recorded dimension
\* and without a change of variables where there was none, changes no
\* variable's global_index, user_dimension or solver_dimension, nor
\* get_number_of_scalars() nor get_number_of_variables().
C15_SameReRegistrationChangesNothing ==
    [][\A variable \in Blocks, dimension \in Dimensions :
          (/\ Registered(variable)
           /\ variables[variable].user_dimension = dimension
           /\ variables[variable].change_of_variables = NULL
           /\ add_variable_internal(variable, dimension, NULL))
          => /\ result'.status = "ok"
             /\ DOMAIN variables' = DOMAIN variables
             /\ \A b \in DOMAIN variables :
                    /\ variables'[b].global_index = variables[b].global_index
                    /\ variables'[b].user_dimension = variables[b].user_dimension
                    /\ variables'[b].solver_dimension = variables[b].solver_dimension
                    /\ variables'[b].change_of_variables = variables[b].change_of_variables
             /\ get_number_of_scalars' = get_number_of_scalars
             /\ get_number_of_variables' = get_number_of_variables]_vars

\* Two calls: a block registered with dimension 2 and no change of
\* variables, then registered again the same way.
C15_Witness ==
    /\ calls = 2
    /\ result.op = "add_variable"
    /\ result.status = "ok"
    /\ result.found
    /\ Len(order) = 1
    /\ variables[order[1]].change_of_variables = NULL
    /\ variables[order[1]].user_dimension = 2
    /\ variables[order[1]].solver_dimension = 2

\* C16: every variable without a change of variables has solver_dimension
\* equal to user_dimension, however its block was registered and
\* registered again; so get_number_of_scalars() is the sum of
\* user_dimension when no variable has a change of variables.
C16_NoTransformMeansEqualDimensions ==
    /\ \A b \in Blocks :
           (Registered(b) /\ variables[b].change_of_variables = NULL)
           => variables[b].solver_dimension = variables[b].user_dimension
    /\ (\A b \in DOMAIN variables : variables[b].change_of_variables = NULL)
       => get_number_of_scalars =
              SumSeq([b \in 1..NumBlocks |->
                         IF b \in DOMAIN variables THEN variables[b].user_dimension ELSE 0])

\* ------------------------------------------------ the bindings (C17)
\* Binding k has number_of_variables references, each to a registered
\* variable of the dimension the term declares for the argument.
BindingWellFormed(k) ==
    /\ Len(terms[k].user_variables) = number_of_variables(terms[k].term)
    /\ \A var \in 1..Len(terms[k].user_variables) :
           /\ Registered(terms[k].user_variables[var])
           /\ variables[terms[k].user_variables[var]].user_dimension =
                  variable_dimension(terms[k].term, var)

\* The binding has a block of variable_dimension(var0) x variable_dimension(var1)
\* for every pair of arguments.
BlocksShapedIn(binding) ==
    LET h == binding.hessian
        arity == number_of_variables(binding.term)
    IN  /\ Len(h) = arity
        /\ \A var0 \in 1..arity :
               /\ Len(h[var0]) = arity
               /\ \A var1 \in 1..arity :
                      /\ Len(h[var0][var1]) = variable_dimension(binding.term, var0)
                      /\ \A i \in 1..Len(h[var0][var1]) :
                             Len(h[var0][var1][i]) = variable_dimension(binding.term, var1)

BlocksShaped(k) ==
    BlocksShapedIn(terms[k])

\* C17: after every step every binding is well formed; a binding appended
\* while hessian_is_enabled holds has all its blocks, and a binding that
\* has them keeps them.
C17_BindingsWellFormed ==
    [][/\ \A k \in 1..Len(terms') :
              /\ Len(terms'[k].user_variables) = number_of_variables(terms'[k].term)
              /\ \A var \in 1..Len(terms'[k].user_variables) :
                     /\ terms'[k].user_variables[var] \in Range(order')
                     /\ variables'[terms'[k].user_variables[var]].user_dimension =
                            variable_dimension(terms'[k].term, var)
       /\ (Len(terms') = Len(terms) + 1 /\ hessian_is_enabled)
          => BlocksShapedIn(terms'[Len(terms')])
       /\ \A k \in 1..Len(terms) :
              BlocksShapedIn(terms[k]) => BlocksShapedIn(terms'[k])]_vars

\* Two bindings with their blocks, the first on two variables, after an
\* evaluate that has written the blocks.
C17_Witness ==
    /\ Succeeded({"dense"})
    /\ Len(terms) = 2
    /\ terms[1].term = "Pair"
    /\ BindingWellFormed(1) /\ BindingWellFormed(2)
    /\ BlocksShaped(1) /\ BlocksShaped(2)
    /\ terms[1].hessian[2][2] = <<<<2, 0>>, <<0, 2>>>>


\* ------------------------------------------------ repeated evaluation
\* A caller that evaluates, changes the function and evaluates again, as a
\* solver does. The buffers of allocate_local_storage and temp_space live in
\* the Function and persist between the calls; x and the outputs are the
\* caller's and are passed afresh with every call. Nothing is said of a
\* program after a call with undefined behaviour.
CallAgain ==
    /\ pc = "returned"
    /\ ~undefined
    /\ pc' = "setup"
    /\ mode' = "none"
    /\ x' = <<>>
    /\ outputs_sized' = FALSE
    /\ schedule' = <<>>
    /\ processed' = {}
    /\ evaluation_errors' = <<>>
    /\ first_error' = <<>>
    /\ value' = 0
    /\ gradient' = <<>>
    /\ hessian' = Matrix(0, 0, <<>>)
    /\ sparse_hessian' = SparseMatrix(0, 0, <<>>)
    /\ UNCHANGED <<USE_OPENMP, term_deletion, deleted, handed,
                   evaluations_with_gradient,
                   hessian_is_enabled, variables, number_of_scalars,
                   terms, added_terms, number_of_threads, local_storage_allocated,
                   thread_gradient_scratch, thread_gradient_storage, order, result,
                   calls, undefined>>

\* The overloads that allocate (gradient, dense, sparse) and the one that does
\* not (value), on one x and on outputs the caller has sized.
RepeatedModes ==
    {"value", "gradient", "dense", "sparse"}

EvaluateRepeated ==
    /\ evaluations_with_gradient < MaxEvaluations
    /\ \E m \in RepeatedModes, sched \in [1..Len(terms) -> 1..number_of_threads] :
           EvaluateBegin(m, Zeros(number_of_scalars), m # "value", 0, 0, sched)

NextRepeated ==
    \/ AddVariable
    \/ AddTerm
    \/ SetNumberOfThreads
    \/ SetHessianEnabled
    \/ EvaluateRepeated
    \/ Worker
    \/ Return
    \/ CallAgain

SpecRepeated ==
    Init /\ [][NextRepeated]_vars


\* A gradient-producing evaluate is in its parallel loop.
GradientLoopRunning ==
    pc = "parallel" /\ mode \in {"gradient", "dense", "sparse"}

\* One buffer per worker of number_of_scalars entries, and for every worker a
\* scratch with a slot per argument of the widest binding, each slot as long
\* as the widest variable.
BuffersFit ==
    /\ Len(thread_gradient_storage) = number_of_threads
    /\ Len(thread_gradient_scratch) = number_of_threads
    /\ \A t \in 1..number_of_threads :
           /\ Len(thread_gradient_storage[t]) = number_of_scalars
           /\ \A k \in 1..Len(terms) :
                  thread_gradient_scratch[t][1] >= Len(terms[k].user_variables)
           /\ \A b \in DOMAIN variables :
                  thread_gradient_scratch[t][2] >= variables[b].user_dimension

\* The step changes the variable set, the term set or the worker count.
ConfigurationChanged ==
    \/ DOMAIN variables' # DOMAIN variables
    \/ order' # order
    \/ number_of_scalars' # number_of_scalars
    \/ Len(terms') # Len(terms)
    \/ number_of_threads' # number_of_threads

\* C18: after any interleaving of add_variable, add_term, set_number_of_threads
\* and evaluate calls, whenever a gradient-producing evaluate is in its
\* parallel loop there are number_of_threads gradient buffers of
\* number_of_scalars entries each and every worker's scratch has at least
\* max-arity slots of at least max-user_dimension entries; every step that
\* changes the variable set, the term set or the worker count clears
\* local_storage_allocated, and an evaluate that finds the flag cleared enters
\* its loop with the flag set again.
C18_BuffersAllocatedBeforeLoop ==
    /\ [](GradientLoopRunning => (local_storage_allocated /\ BuffersFit))
    /\ [][ConfigurationChanged => ~local_storage_allocated']_vars

\* A second gradient evaluation runs after the first one's buffers were
\* invalidated by a new variable and a new worker count.
C18_Witness ==
    /\ GradientLoopRunning
    /\ evaluations_with_gradient = 2
    /\ calls = MaxSetupCalls
    /\ number_of_threads = 2
    /\ number_of_scalars = 3
    /\ Len(terms) = 1
    /\ Len(thread_gradient_storage) = 2
    /\ Len(thread_gradient_storage[1]) = 3
    /\ thread_gradient_scratch[1] = <<1, 2>>


\* The step is a call of set_number_of_threads; result'.num is its argument.
SetNumberOfThreadsCalled ==
    calls' = calls + 1 /\ result'.op = "set_number_of_threads"

\* What the call is to do with its argument.
SetNumberOfThreadsContract ==
    IF result'.num <= 0
    THEN /\ result'.status = "InvalidNumberOfThreads"
         /\ UNCHANGED <<number_of_threads, local_storage_allocated>>
    ELSE /\ result'.status = "ok"
         /\ number_of_threads' = result'.num

\* The term loop runs on the workers 1..number_of_threads.
LoopOnConfiguredWorkers ==
    pc = "parallel" =>
        /\ \A k \in DOMAIN schedule : schedule[k] \in 1..number_of_threads
        /\ USE_OPENMP => Len(evaluation_errors) = number_of_threads

\* C19: set_number_of_threads(num) with num <= 0 fails and leaves
\* number_of_threads and local_storage_allocated unchanged; with num >= 1 it
\* succeeds, number_of_threads becomes num, and the next evaluation runs its
\* loop on exactly that many workers.
C19_SetNumberOfThreads ==
    /\ [][SetNumberOfThreadsCalled => SetNumberOfThreadsContract]_vars
    /\ []LoopOnConfiguredWorkers

\* The same in a build with USE_OPENMP.
SetNumberOfThreadsWithOpenMP ==
    /\ [][(USE_OPENMP /\ SetNumberOfThreadsCalled) => SetNumberOfThreadsContract]_vars
    /\ []LoopOnConfiguredWorkers

\* An evaluation on the two workers a call of set_number_of_threads(2) set.
SetNumberOfThreadsWitness ==
    /\ USE_OPENMP
    /\ pc = "parallel"
    /\ number_of_threads = 2
    /\ \E k \in DOMAIN schedule : schedule[k] = 2


\* ------------------------------------------------------------ lifetime
\* The caller chooses who owns the terms by assigning the public member.
set_term_deletion(choice) ==
    /\ term_deletion' = choice
    /\ result' = [op |-> "term_deletion", status |-> "ok"]
    /\ UNCHANGED <<USE_OPENMP, deleted, handed, evaluations_with_gradient,
                   hessian_is_enabled, variables, number_of_scalars, terms,
                   added_terms, number_of_threads, local_storage_allocated,
                   thread_gradient_scratch, thread_gradient_storage, order>>

\* A destructor that deleted the term of every binding.
DeletedBindings ==
    IF term_deletion = "DeleteTerms"
    THEN [t \in added_terms |-> Cardinality({k \in 1..Len(terms) : terms[k].term = t})]
    ELSE EmptyBag

\* "delete *itr" for every element of added_terms.
DeletedTerms ==
    IF term_deletion = "DeleteTerms" THEN SetToBag(added_terms) ELSE EmptyBag

\* "delete itr->second.change_of_variables" for every record that has one:
\* an object that several records hold is deleted once for each of them.
DeletedChanges ==
    LET held == {b \in DOMAIN variables : variables[b].change_of_variables # NULL}
    IN  [c \in {variables[b].change_of_variables : b \in held} |->
            Cardinality({b \in held : variables[b].change_of_variables = c})]

\* ~Function, between two calls of the interface.
Destructor ==
    /\ pc \in {"setup", "returned"}
    /\ pc' = "destroyed"
    /\ deleted' = [terms |-> DeletedTerms,
                   change_of_variables |->
                       Delete(deleted.change_of_variables, DeletedChanges)]
    /\ result' = [op |-> "~Function", status |-> "ok"]
    /\ UNCHANGED <<USE_OPENMP, term_deletion, handed, evaluations_with_gradient,
                   hessian_is_enabled, variables, number_of_scalars, terms,
                   added_terms, number_of_threads, local_storage_allocated,
                   thread_gradient_scratch, thread_gradient_storage, order, calls,
                   mode, x, outputs_sized, schedule, processed, evaluation_errors,
                   first_error, value, gradient, hessian, sparse_hessian, undefined>>

TermDeletions ==
    {"DeleteTerms", "DoNotDeleteTerms"}

SetTermDeletion ==
    /\ SetupCall
    /\ \E choice \in TermDeletions :
           set_term_deletion(choice)

Destroy ==
    Destructor

NextLifetime ==
    \/ AddVariable
    \/ AddTerm
    \/ SetTermDeletion
    \/ Destroy

SpecLifetime ==
    Init /\ [][NextLifetime]_vars

\* The terms of the bindings: every term an add_term call added successfully.
BoundTerms ==
    {terms[k].term : k \in 1..Len(terms)}

\* C20: when the Function is destroyed with term_deletion = DeleteTerms, every
\* distinct term that an add_term call added successfully has been deleted
\* exactly once, however many bindings refer to it, and nothing else has; when
\* it is destroyed with another term_deletion no term has been deleted.
C20_TermsDeletedOnce ==
    pc = "destroyed" =>
        IF term_deletion = "DeleteTerms"
        THEN /\ BagToSet(deleted.terms) = BoundTerms
             /\ \A t \in BoundTerms : CopiesIn(t, deleted.terms) = 1
        ELSE BagToSet(deleted.terms) = {}

\* A Function destroyed with two bindings of the same term.
C20_Witness ==
    /\ pc = "destroyed"
    /\ term_deletion = "DeleteTerms"
    /\ Len(terms) = 2
    /\ terms[1].term = terms[2].term
    /\ CopiesIn(terms[1].term, deleted.terms) = 1

\* A Function destroyed with bindings whose terms the caller kept.
TermsKeptWitness ==
    /\ pc = "destroyed"
    /\ term_deletion = "DoNotDeleteTerms"
    /\ Len(terms) = 2
    /\ deleted.terms = EmptyBag


\* ------------------------------------------------ failed registrations
\* The step is an add_variable call that failed.
RegistrationFailed ==
    result'.op = "add_variable" /\ result'.status # "ok"

\* variable_count(), total_scalar_count() and the blocks add_term knows.
RegistryUnchanged ==
    /\ get_number_of_variables' = get_number_of_variables
    /\ get_number_of_scalars' = get_number_of_scalars
    /\ DOMAIN variables' = DOMAIN variables

\* add_term with the right number of arguments, the first of which is a block
\* that no add_variable call registered successfully, fails with UnknownVariable.
UnregisteredIsUnknown ==
    \A term \in TermObjects, variable \in Blocks \ Range(order) :
        \A arguments \in [1..number_of_variables(term) -> Blocks] :
            arguments[1] = variable =>
                AddTermStatus(term, arguments) = "UnknownVariable"

\* C23: an add_variable call that fails leaves get_number_of_variables,
\* get_number_of_scalars and the set of registered blocks unchanged, and a
\* block whose first registration failed is still unknown to add_term.
C23_FailedRegistrationLeavesRegistry ==
    /\ [][RegistrationFailed => RegistryUnchanged]_vars
    /\ []UnregisteredIsUnknown

\* The same for the failures of the re-registration branch.
FailedReRegistrationLeavesRegistry ==
    [][(RegistrationFailed /\ result'.found) => RegistryUnchanged]_vars


\* ------------------------------------------- outputs after a failure
\* The caller's outputs are as they were handed in.
OutputsUntouched ==
    /\ gradient = CallerGradient(outputs_sized)
    /\ hessian = CallerHessian(outputs_sized)
    /\ sparse_hessian = CallerSparseHessian(outputs_sized)

\* C24: when a term has failed in an evaluate with a gradient (gradient only,
\* dense Hessian or sparse Hessian), the call ends in a failure and the
\* caller's gradient and Hessian have the contents and the shape they were
\* handed in with.
C24_FailureLeavesOutputs ==
    (Returned({"gradient", "dense", "sparse"}) /\ SomeTermFailed)
    => /\ result.status # "ok"
       /\ OutputsUntouched

\* A dense evaluate with sized outputs in which one binding was evaluated
\* and added to the thread's gradient and the other failed.
C24_Witness ==
    /\ Returned({"dense"})
    /\ SomeTermFailed
    /\ result.status = "TermEvaluationFailure"
    /\ outputs_sized
    /\ number_of_scalars > 0
    /\ \E k \in processed : ~TermThrows(terms[k].term)
    /\ \E t \in DOMAIN thread_gradient_storage :
           \E i \in DOMAIN thread_gradient_storage[t] :
               thread_gradient_storage[t][i] # 0
    /\ gradient = Junk(number_of_scalars)


\* A failing call that had read or written outside a buffer before it failed.
FailureAfterUndefined ==
    /\ Returned({"gradient", "dense", "sparse"})
    /\ SomeTermFailed
    /\ undefined


\* ------------------------------------------------ shapes of the outputs
\* Every coordinate the assembly of a Hessian writes is inside an n x n matrix.
DenseCoordinatesInside ==
    \A e \in DenseWritten :
        GlobalRow(e) < number_of_scalars /\ GlobalColumn(e) < number_of_scalars

SparseCoordinatesInside ==
    \A e \in SparseTriplets :
        GlobalRow(e) < number_of_scalars /\ GlobalColumn(e) < number_of_scalars

\* C25: after a successful evaluate the gradient has number_of_scalars
\* entries and the Hessian that was asked for, dense or sparse, has the shape
\* number_of_scalars x number_of_scalars with every assembled coordinate
\* inside it, whatever shape the caller's outputs came in with.
C25_OutputsShaped ==
    Succeeded({"gradient", "dense", "sparse"})
    => /\ Len(gradient) = number_of_scalars
       /\ mode = "dense" => /\ hessian.rows = number_of_scalars
                            /\ hessian.cols = number_of_scalars
                            /\ DenseCoordinatesInside
       /\ mode = "sparse" => /\ sparse_hessian.rows = number_of_scalars
                             /\ sparse_hessian.cols = number_of_scalars
                             /\ SparseCoordinatesInside

\* The shapes alone, for the gradient and the dense Hessian.
GradientAndDenseShaped ==
    Succeeded({"gradient", "dense", "sparse"})
    => /\ Len(gradient) = number_of_scalars
       /\ mode = "dense" => /\ hessian.rows = number_of_scalars
                            /\ hessian.cols = number_of_scalars
                            /\ Len(hessian.data) = number_of_scalars * number_of_scalars

\* A sparse evaluate that succeeded on a target the caller had not shaped.
SparseTargetNotShaped ==
    /\ Succeeded({"sparse"})
    /\ ~outputs_sized
    /\ number_of_scalars > 0
    /\ sparse_hessian.rows = 0


\* ------------------------------------------- Hessian scratch at evaluate
\* A Hessian overload has passed its tests and is evaluating terms.
HessianLoopRunning ==
    pc = "parallel" /\ mode \in {"dense", "sparse"}

\* C26: whenever a Hessian evaluation has passed the hessian_is_enabled test
\* and evaluates terms, every binding has its Hessian scratch of arity x arity
\* blocks; no binding added while hessian_is_enabled was false is evaluated
\* with a Hessian.
C26_ScratchPresentAtHessianEvaluate ==
    HessianLoopRunning => \A k \in 1..Len(terms) : BlocksShaped(k)

\* A dense evaluate running over a binding that has no Hessian scratch.
EvaluatedWithoutScratch ==
    /\ HessianLoopRunning
    /\ \E k \in processed : terms[k].hessian = <<>>


\* ------------------------------------------------ writes of the workers
\* The step runs one iteration of the term loop.
WorkerStep ==
    pc = "parallel" /\ processed' # processed

\* The binding the step processes.
StepIteration ==
    CHOOSE k \in processed' \ processed : TRUE

\* Thread t running binding k changes the buffer of no other thread, the
\* scratch of no other binding and no other thread's exception slot, and
\* leaves x and the variables' temp_space as they are.
WritesOwnedOnly(t, k) ==
    /\ DOMAIN thread_gradient_storage' = DOMAIN thread_gradient_storage
    /\ \A u \in DOMAIN thread_gradient_storage \ {t} :
           thread_gradient_storage'[u] = thread_gradient_storage[u]
    /\ thread_gradient_scratch' = thread_gradient_scratch
    /\ Len(terms') = Len(terms)
    /\ \A j \in (1..Len(terms)) \ {k} : terms'[j] = terms[j]
    /\ terms'[k].term = terms[k].term
    /\ terms'[k].user_variables = terms[k].user_variables
    /\ pc' = "parallel" =>
           /\ DOMAIN evaluation_errors' = DOMAIN evaluation_errors
           /\ \A u \in DOMAIN evaluation_errors \ {t} :
                  evaluation_errors'[u] = evaluation_errors[u]
    /\ x' = x
    /\ variables' = variables

\* The gradient loop writes past the end of the thread's buffer s: user_dimension
\* entries copied, or t_dimension entries written by update_gradient.
WritesPastBuffer(s, var_info) ==
    IF var_info.change_of_variables = NULL
    THEN var_info.global_index + var_info.user_dimension > Len(s)
    ELSE var_info.global_index + t_dimension(var_info.change_of_variables) > Len(s)

\* Every write of the iteration lands inside the buffers its thread owns:
\* the term has Hessian blocks to write to and the gradient loop stays
\* inside the thread's buffer.
WritesInRange(t, k) ==
    \/ TermThrows(terms[k].term)
    \/ /\ mode \in {"dense", "sparse"} => terms[k].hessian # <<>>
       /\ mode # "value" =>
              \A var \in 1..LastPut(k) :
                  ~WritesPastBuffer(thread_gradient_storage[t], UserVariable(k, var))

\* C21: in the parallel loop every binding is processed once, by the one
\* thread the schedule gives it to; that thread writes only its own gradient
\* buffer, its own scratch and exception slot and the Hessian scratch of the
\* binding, every write inside these buffers; x and the variables'
\* temp_space are only read. So no location is written by two threads.
C21_WorkersWriteDisjoint ==
    [][WorkerStep =>
          /\ processed' = processed \cup {StepIteration}
          /\ StepIteration \notin processed
          /\ WritesOwnedOnly(schedule[StepIteration], StepIteration)
          /\ WritesInRange(schedule[StepIteration], StepIteration)]_vars

\* The same without the range of the writes: which buffers a thread changes.
WorkersChangeOwnBuffersOnly ==
    [][WorkerStep =>
          /\ processed' = processed \cup {StepIteration}
          /\ StepIteration \notin processed
          /\ WritesOwnedOnly(schedule[StepIteration], StepIteration)]_vars

\* The same for the calls on a term graph whose bindings all have their
\* Hessian scratch and whose variables lie inside number_of_scalars.
WorkersWriteDisjointInsideBuffers ==
    [][(WorkerStep
        /\ \A k \in 1..Len(terms) : terms[k].hessian # <<>>
        /\ \A b \in DOMAIN variables :
               /\ variables[b].global_index + variables[b].solver_dimension
                      <= number_of_scalars
               /\ variables[b].change_of_variables = NULL
                      => variables[b].solver_dimension = variables[b].user_dimension
               /\ variables[b].change_of_variables # NULL
                      => /\ t_dimension(variables[b].change_of_variables)
                                = variables[b].solver_dimension
                         /\ x_dimension(variables[b].change_of_variables)
                                = variables[b].user_dimension)
       => /\ WritesOwnedOnly(schedule[StepIteration], StepIteration)
          /\ WritesInRange(schedule[StepIteration], StepIteration)]_vars

\* Two threads have each run a binding of a dense evaluate.
TwoWorkersWitness ==
    /\ HessianLoopRunning
    /\ number_of_threads = 2
    /\ processed = {1, 2}
    /\ schedule[1] # schedule[2]
    /\ ~undefined


\* One of two threads is about to write past the end of its gradient buffer.
WriteOutsideOwnBuffer ==
    /\ GradientLoopRunning
    /\ USE_OPENMP
    /\ number_of_threads = 2
    /\ \A k \in 1..Len(terms) : terms[k].hessian # <<>>
    /\ \E k \in (1..Len(terms)) \ processed :
           /\ ~TermThrows(terms[k].term)
           /\ schedule[k] = 1
           /\ \E var \in 1..LastPut(k) :
                  WritesPastBuffer(thread_gradient_storage[1], UserVariable(k, var))


\* ------------------------------------------- lifetime of the transforms
\* How often the object c has been deleted.
Deletions(c) ==
    CopiesIn(c, deleted.change_of_variables)

\* C22: every ChangeOfVariables object handed to add_variable is deleted
\* exactly once over the lifetime of the Function, by a later add_variable of
\* the same block or by the destructor: never twice, once when the Function
\* is gone, and no record holds an object that has been deleted, whatever the
\* add_variable calls were (the object the record holds handed again, failing
\* calls).
C22_TransformsDeletedOnce ==
    /\ \A c \in handed : Deletions(c) <= 1
    /\ pc = "destroyed" => \A c \in handed : Deletions(c) = 1
    /\ pc # "destroyed" => ~HoldsDeleted

\* Nothing but objects handed to add_variable is deleted, and the destructor
\* leaves no record's object undeleted.
OnlyHandedTransformsDeleted ==
    /\ BagToSet(deleted.change_of_variables) \subseteq handed
    /\ pc = "destroyed" =>
           \A b \in DOMAIN variables :
               variables[b].change_of_variables # NULL
                   => Deletions(variables[b].change_of_variables) >= 1

\* A Function destroyed after a single add_variable call with a transform,
\* which failed on a registered block: the object was never deleted.
TransformNeverDeleted ==
    /\ pc = "destroyed"
    /\ calls = 2
    /\ Cardinality(handed) = 1
    /\ \A c \in handed : Deletions(c) = 0

\* After two add_variable calls a record holds the one object handed so far,
\* and that object has been deleted.
DeletedTransformInstalled ==
    /\ pc = "setup"
    /\ calls = 2
    /\ Cardinality(DOMAIN variables) = 1
    /\ Cardinality(handed) = 1
    /\ HoldsDeleted
====
